---- MODULE Spec2Model ----
(***************************************************************************)
(* TRY16: a NEP-17 fungible-token contract (src/try16.py).                 *)
(*                                                                         *)
(* The contract's durable state is the key-value storage of the contract:  *)
(* one entry per account that holds tokens (key = the 20 bytes of the      *)
(* account) and one entry for the total supply (key = 'totalSupply').      *)
(* Every public method is one atomic invocation: it runs to completion, or *)
(* it faults and the platform discards whatever it wrote and notified.     *)
(* The notifications of an invocation belong to that invocation: `events`  *)
(* is the log of the invocation that ran last.                             *)
(*                                                                         *)
(* Amounts.  The token has 8 decimals and a supply of 100 * 10^8 base      *)
(* units, which is beyond the 32-bit integers of TLC.  Every integer       *)
(* amount of the model counts units of 10^7 base units (Unit); the code    *)
(* only adds, subtracts and compares amounts, so it behaves on multiples   *)
(* of Unit exactly as on their quotients.                                  *)
(***************************************************************************)
EXTENDS Integers, Sequences, FiniteSets, TLC

VARIABLES store, events, last, minted

vars == <<store, events, last, minted>>

----------------------------------------------------------------------------
(* Bounds of the model *)

\* The supply is minted at most this many times: no method is invoked once
\* MaxMints activations have minted.
MaxMints == 2

----------------------------------------------------------------------------
(* Constants of the contract *)

\* UInt160("NZ52Yd3sNcV1aCJTh9NRmSY1c8J7JbWds8".to_script_hash()): the 20
\* bytes of the base58check address after its version byte.
OWNER ==
  <<144, 80, 46, 245, 175, 84, 177, 61, 27, 221, 80, 110, 246, 96, 171, 67,
    186, 118, 223, 243>>

\* 'totalSupply' as the bytes of the storage key (11 bytes, so it cannot be
\* the key of a 20-byte account).
SUPPLY_KEY ==
  <<116, 111, 116, 97, 108, 83, 117, 112, 112, 108, 121>>

TOKEN_DECIMALS == 8

\* One unit of the model's amounts, in base units of the token.
Unit ==
  10 ^ (TOKEN_DECIMALS - 1)

\* 100 * 10 ** TOKEN_DECIMALS base units, counted in units of Unit.
TOKEN_TOTAL_SUPPLY ==
  100 * ((10 ^ TOKEN_DECIMALS) \div Unit)

\* Python's None (the absent address of a mint or a burn notification).
None ==
  <<>>

----------------------------------------------------------------------------
(* The inputs the methods are invoked with *)

ALICE ==
  [i \in 1..20 |-> 17]

BOB ==
  [i \in 1..20 |-> 34]

\* The script hash of an entry script that holds no tokens.
ENTRY ==
  [i \in 1..20 |-> 51]

\* runtime.executing_script_hash: the hash of this contract.
SELF ==
  [i \in 1..20 |-> 68]

\* A byte string that is not a 20-byte address.
SHORT ==
  <<1, 2, 3>>

Accounts ==
  {OWNER, ALICE, BOB}

Addresses ==
  Accounts \cup {SHORT}

Amounts ==
  {-1, 0, 4 * (TOKEN_TOTAL_SUPPLY \div 10), 6 * (TOKEN_TOTAL_SUPPLY \div 10),
   TOKEN_TOTAL_SUPPLY}

Data ==
  {<<7>>}

Callers ==
  {ALICE, ENTRY}

\* What get_contract(to_address) finds: no contract, a contract whose
\* onNEP17Payment returns, or a contract whose onNEP17Payment faults.
Destinations ==
  {"account", "contract", "faulting_contract"}

\* One invocation of transfer: its arguments and the answers the platform
\* gives to the calls transfer makes (calling_script_hash, check_witness of
\* from_address, and what is deployed at to_address).
TransferCalls ==
  [from_address : Addresses, to_address : Addresses, amount : Amounts,
   data : Data, calling_script_hash : Callers, check_witness : BOOLEAN,
   destination : Destinations]

\* One invocation of burn: its arguments, the answer of check_witness for
\* the account, and the outcome of NEO_TOKEN.transfer.
BurnCalls ==
  [account : Addresses, amount : Amounts, check_witness : BOOLEAN,
   payout : {"true", "false", "fault"}]

DeployCalls ==
  [data : Data, update : BOOLEAN]

PaymentCalls ==
  [from_address : Accounts, amount : Amounts, data : Data]

----------------------------------------------------------------------------
(* The storage of the contract *)

\* storage.get(key).to_int(): an absent key reads as the empty byte string,
\* whose integer value is 0.
Get(st, key) ==
  IF key \in DOMAIN st THEN st[key] ELSE 0

Put(st, key, value) ==
  [k \in (DOMAIN st) \cup {key} |-> IF k = key THEN value ELSE st[k]]

Delete(st, key) ==
  [k \in (DOMAIN st) \ {key} |-> st[k]]

total_supply(st) ==
  Get(st, SUPPLY_KEY)

\* balance_of asserts len(account) = 20; its callers in the model have
\* asserted it before.
balance_of(st, account) ==
  Get(st, account)

\* The keys of the balance entries the storage holds.
BalanceKeys(st) ==
  (DOMAIN st) \ {SUPPLY_KEY}

RECURSIVE SumOver(_, _)
SumOver(st, keys) ==
  IF keys = {} THEN 0
  ELSE LET k == CHOOSE x \in keys : TRUE
       IN  st[k] + SumOver(st, keys \ {k})

SumBalances(st) ==
  SumOver(st, BalanceKeys(st))

----------------------------------------------------------------------------
(* Notifications and the result of an invocation *)

\* Mutation: the sender and the receiver change places in the notification.
on_transfer_swapped(from_address, to_address, amount) ==
  [from_address |-> to_address, to_address |-> from_address, amount |-> amount]

\* on_transfer(from, to, amount): one Nep17TransferEvent notification.
on_transfer(from_address, to_address, amount) ==
  [from_address |-> from_address, to_address |-> to_address, amount |-> amount]

\* The result of one invocation: the storage and the notification log it
\* leaves, what it returned ("true", "false", "void", or "abort" for a
\* fault), the statement it left by, and the calls it made into other
\* contracts.
Outcome(st, ev, ret, exit, calls) ==
  [store |-> st, events |-> ev, ret |-> ret, exit |-> exit, calls |-> calls]

\* A fault (a failed assert, abort(), or a fault of a called contract that
\* the method does not catch): the invocation ends and the platform keeps
\* the storage and the log of before the invocation.
Fault(st, ev, exit, calls) ==
  Outcome(st, ev, "abort", exit, calls)

----------------------------------------------------------------------------
(* transfer *)

\* Mutation: the balance check is missing.
InsufficientFunds_unchecked(from_balance, amount) ==
  FALSE

\* `if from_balance < amount: return False`
InsufficientFunds(from_balance, amount) ==
  from_balance < amount

\* Mutation: the answer of check_witness is not used.
Unauthorized_ignored(from_address, calling_script_hash, check_witness) ==
  FALSE

\* `if from_address != calling_script_hash: if not check_witness(from_address)`
Unauthorized(from_address, calling_script_hash, check_witness) ==
  from_address # calling_script_hash /\ ~check_witness

\* Mutation: the sender's entry is always rewritten, never deleted.
DebitFrom_alwaysPut(st, from_address, from_balance, amount) ==
  Put(st, from_address, from_balance - amount)

\* The sender's entry after the move: deleted when the whole balance leaves.
DebitFrom(st, from_address, from_balance, amount) ==
  IF from_balance = amount
  THEN Delete(st, from_address)
  ELSE Put(st, from_address, from_balance - amount)

\* Mutation: the receiver's entry is overwritten with the amount.
CreditTo_overwrite(st, to_address, amount) ==
  Put(st, to_address, amount)

\* The receiver's entry after the move.
CreditTo(st, to_address, amount) ==
  LET to_balance == Get(st, to_address)
  IN  Put(st, to_address, to_balance + amount)

\* Mutation: the writes are not skipped for a self transfer or a zero
\* amount.
MoveTokens_unconditional(st, from_address, to_address, from_balance, amount) ==
  CreditTo(DebitFrom(st, from_address, from_balance, amount),
           to_address, amount)

\* The storage writes of transfer, skipped for a self transfer and for a
\* zero amount.
MoveTokens(st, from_address, to_address, from_balance, amount) ==
  IF from_address # to_address /\ amount # 0
  THEN CreditTo(DebitFrom(st, from_address, from_balance, amount),
                to_address, amount)
  ELSE st

\* call_contract(to_address, 'onNEP17Payment', [from_address, amount, data])
OnPaymentCall(from_address, to_address, amount, data) ==
  [contract |-> to_address, method |-> "onNEP17Payment",
   args |-> <<from_address, amount, data>>]

\* Mutation: the tokens are moved before the authorization check, and a
\* rejected call returns with the storage it has written.
transfer_moveFirst(st, ev, c) ==
  IF ~(Len(c.from_address) = 20 /\ Len(c.to_address) = 20)
  THEN Fault(st, ev, "assert_address", <<>>)
  ELSE IF ~(c.amount >= 0)
  THEN Fault(st, ev, "assert_amount", <<>>)
  ELSE
    LET from_balance == Get(st, c.from_address)
        st1 == MoveTokens(st, c.from_address, c.to_address, from_balance,
                          c.amount)
    IN  IF InsufficientFunds(from_balance, c.amount)
        THEN Outcome(st, ev, "false", "insufficient", <<>>)
        ELSE IF Unauthorized(c.from_address, c.calling_script_hash,
                             c.check_witness)
        THEN Outcome(st1, ev, "false", "unauthorized", <<>>)
        ELSE
          LET ev1 == Append(ev, on_transfer(c.from_address, c.to_address,
                                            c.amount))
              hook == OnPaymentCall(c.from_address, c.to_address, c.amount,
                                    c.data)
          IN  IF c.destination # "account"
              THEN IF c.destination = "faulting_contract"
                   THEN Fault(st, ev, "hook_fault", <<hook>>)
                   ELSE Outcome(st1, ev1, "true", "done", <<hook>>)
              ELSE Outcome(st1, ev1, "true", "done", <<>>)

\* Mutation: the two asserts on the arguments are missing.
transfer_unvalidated(st, ev, c) ==
  LET from_balance == Get(st, c.from_address)
  IN  IF InsufficientFunds(from_balance, c.amount)
      THEN Outcome(st, ev, "false", "insufficient", <<>>)
      ELSE IF Unauthorized(c.from_address, c.calling_script_hash,
                           c.check_witness)
      THEN Outcome(st, ev, "false", "unauthorized", <<>>)
      ELSE
        LET st1 == MoveTokens(st, c.from_address, c.to_address,
                              from_balance, c.amount)
            ev1 == Append(ev, on_transfer(c.from_address, c.to_address,
                                          c.amount))
            hook == OnPaymentCall(c.from_address, c.to_address, c.amount,
                                  c.data)
        IN  IF c.destination # "account"
            THEN IF c.destination = "faulting_contract"
                 THEN Fault(st, ev, "hook_fault", <<hook>>)
                 ELSE Outcome(st1, ev1, "true", "done", <<hook>>)
            ELSE Outcome(st1, ev1, "true", "done", <<>>)

\* Mutation: a fault of the receiver's onNEP17Payment is caught and dropped.
transfer_hookCaught(st, ev, c) ==
  IF ~(Len(c.from_address) = 20 /\ Len(c.to_address) = 20)
  THEN Fault(st, ev, "assert_address", <<>>)
  ELSE IF ~(c.amount >= 0)
  THEN Fault(st, ev, "assert_amount", <<>>)
  ELSE
    LET from_balance == Get(st, c.from_address)
    IN  IF InsufficientFunds(from_balance, c.amount)
        THEN Outcome(st, ev, "false", "insufficient", <<>>)
        ELSE IF Unauthorized(c.from_address, c.calling_script_hash,
                             c.check_witness)
        THEN Outcome(st, ev, "false", "unauthorized", <<>>)
        ELSE
          LET st1 == MoveTokens(st, c.from_address, c.to_address,
                                from_balance, c.amount)
              ev1 == Append(ev, on_transfer(c.from_address, c.to_address,
                                            c.amount))
              hook == OnPaymentCall(c.from_address, c.to_address, c.amount,
                                    c.data)
          IN  IF c.destination # "account"
              THEN Outcome(st1, ev1, "true", "done", <<hook>>)
              ELSE Outcome(st1, ev1, "true", "done", <<>>)

transfer(st, ev, c) ==
  IF ~(Len(c.from_address) = 20 /\ Len(c.to_address) = 20)
  THEN Fault(st, ev, "assert_address", <<>>)
  ELSE IF ~(c.amount >= 0)
  THEN Fault(st, ev, "assert_amount", <<>>)
  ELSE
    LET from_balance == Get(st, c.from_address)
    IN  IF InsufficientFunds(from_balance, c.amount)
        THEN Outcome(st, ev, "false", "insufficient", <<>>)
        ELSE IF Unauthorized(c.from_address, c.calling_script_hash,
                             c.check_witness)
        THEN Outcome(st, ev, "false", "unauthorized", <<>>)
        ELSE
          LET st1 == MoveTokens(st, c.from_address, c.to_address,
                                from_balance, c.amount)
              ev1 == Append(ev, on_transfer(c.from_address, c.to_address,
                                            c.amount))
              hook == OnPaymentCall(c.from_address, c.to_address, c.amount,
                                    c.data)
          IN  IF c.destination # "account"
              THEN IF c.destination = "faulting_contract"
                   THEN Fault(st, ev, "hook_fault", <<hook>>)
                   ELSE Outcome(st1, ev1, "true", "done", <<hook>>)
              ELSE Outcome(st1, ev1, "true", "done", <<>>)

----------------------------------------------------------------------------
(* post_transfer *)

\* The calls post_transfer makes: onNEP17Payment of the receiver when the
\* caller asks for it, the receiver is an address and it is a contract.
post_transfer(from_address, to_address, amount, data, call_onPayment, is_contract) ==
  IF call_onPayment /\ to_address # None /\ is_contract
  THEN <<OnPaymentCall(from_address, to_address, amount, data)>>
  ELSE <<>>

----------------------------------------------------------------------------
(* _deploy *)

\* Mutation: the guard against a second activation is missing.
AlreadyDeployed_unguarded(st) ==
  FALSE

\* `if storage.get(SUPPLY_KEY).to_int() > 0: return`
AlreadyDeployed(st) ==
  Get(st, SUPPLY_KEY) > 0

\* Mutation: the owner's balance is not written.
MintToOwner_supplyOnly(st) ==
  Put(st, SUPPLY_KEY, TOKEN_TOTAL_SUPPLY)

\* The two storage writes of the first activation.
MintToOwner(st) ==
  Put(Put(st, SUPPLY_KEY, TOKEN_TOTAL_SUPPLY), OWNER, TOKEN_TOTAL_SUPPLY)

deploy(st, ev, c) ==
  IF c.update
  THEN Outcome(st, ev, "void", "update", <<>>)
  ELSE IF AlreadyDeployed(st)
  THEN Outcome(st, ev, "void", "deployed", <<>>)
  ELSE Outcome(MintToOwner(st),
               Append(ev, on_transfer(None, OWNER, TOKEN_TOTAL_SUPPLY)),
               "void", "minted", <<>>)

----------------------------------------------------------------------------
(* onNEP17Payment *)

\* Mutation: the payment is accepted.
onNEP17Payment_accepted(st, ev, c) ==
  Outcome(st, ev, "void", "done", <<>>)

onNEP17Payment(st, ev, c) ==
  Fault(st, ev, "abort", <<>>)

----------------------------------------------------------------------------
(* burn *)

\* Mutation: the total supply is written back without the subtraction.
BurnSupply_kept(st, current_total_supply, amount) ==
  Put(st, SUPPLY_KEY, current_total_supply)

\* storage.put(SUPPLY_KEY, current_total_supply - amount)
BurnSupply(st, current_total_supply, amount) ==
  Put(st, SUPPLY_KEY, current_total_supply - amount)

\* Mutation: the burner's entry is always rewritten, never deleted.
BurnDebit_alwaysPut(st, account, account_balance, amount) ==
  Put(st, account, account_balance - amount)

\* The burner's entry after the burn: deleted when the whole balance burns.
BurnDebit(st, account, account_balance, amount) ==
  IF account_balance = amount
  THEN Delete(st, account)
  ELSE Put(st, account, account_balance - amount)

\* NEO_TOKEN.transfer(runtime.executing_script_hash, account, amount)
PayoutCall(account, amount) ==
  [contract |-> "NEO", method |-> "transfer",
   args |-> <<SELF, account, amount>>]

\* Mutation: the balance is asserted before the witness is checked.
burn_assertFirst(st, ev, c) ==
  IF ~(Len(c.account) = 20)
  THEN Fault(st, ev, "assert_address", <<>>)
  ELSE IF ~(c.amount >= 0)
  THEN Fault(st, ev, "assert_amount", <<>>)
  ELSE
    LET current_total_supply == total_supply(st)
        account_balance == balance_of(st, c.account)
    IN  IF ~(account_balance >= c.amount)
        THEN Fault(st, ev, "assert_balance", <<>>)
        ELSE IF ~c.check_witness
        THEN Outcome(st, ev, "void", "unwitnessed", <<>>)
        ELSE IF ~(c.amount # 0)
        THEN Outcome(st, ev, "void", "zero", <<>>)
        ELSE
          LET st1 == BurnDebit(BurnSupply(st, current_total_supply, c.amount),
                               c.account, account_balance, c.amount)
              ev1 == Append(ev, on_transfer(c.account, None, c.amount))
              calls == post_transfer(c.account, None, c.amount, None, FALSE,
                                     FALSE)
                       \o <<PayoutCall(c.account, c.amount)>>
          IN  IF c.payout = "fault"
              THEN Fault(st, ev, "payout_fault", calls)
              ELSE Outcome(st1, ev1, "void", "burned", calls)

\* Mutation: `assert account_balance >= amount` is missing.
burn_unasserted(st, ev, c) ==
  IF ~(Len(c.account) = 20)
  THEN Fault(st, ev, "assert_address", <<>>)
  ELSE IF ~(c.amount >= 0)
  THEN Fault(st, ev, "assert_amount", <<>>)
  ELSE IF ~c.check_witness
  THEN Outcome(st, ev, "void", "unwitnessed", <<>>)
  ELSE IF ~(c.amount # 0)
  THEN Outcome(st, ev, "void", "zero", <<>>)
  ELSE
    LET current_total_supply == total_supply(st)
        account_balance == balance_of(st, c.account)
        st1 == BurnDebit(BurnSupply(st, current_total_supply, c.amount),
                         c.account, account_balance, c.amount)
        ev1 == Append(ev, on_transfer(c.account, None, c.amount))
        calls == post_transfer(c.account, None, c.amount, None, FALSE, FALSE)
                 \o <<PayoutCall(c.account, c.amount)>>
    IN  IF c.payout = "fault"
        THEN Fault(st, ev, "payout_fault", calls)
        ELSE Outcome(st1, ev1, "void", "burned", calls)

\* Mutation: burn asserts the result of NEO_TOKEN.transfer.
burn_requirePayout(st, ev, c) ==
  IF ~(Len(c.account) = 20)
  THEN Fault(st, ev, "assert_address", <<>>)
  ELSE IF ~(c.amount >= 0)
  THEN Fault(st, ev, "assert_amount", <<>>)
  ELSE IF ~c.check_witness
  THEN Outcome(st, ev, "void", "unwitnessed", <<>>)
  ELSE IF ~(c.amount # 0)
  THEN Outcome(st, ev, "void", "zero", <<>>)
  ELSE
    LET current_total_supply == total_supply(st)
        account_balance == balance_of(st, c.account)
    IN  IF ~(account_balance >= c.amount)
        THEN Fault(st, ev, "assert_balance", <<>>)
        ELSE
          LET st1 == BurnDebit(BurnSupply(st, current_total_supply, c.amount),
                               c.account, account_balance, c.amount)
              ev1 == Append(ev, on_transfer(c.account, None, c.amount))
              calls == post_transfer(c.account, None, c.amount, None, FALSE,
                                     FALSE)
                       \o <<PayoutCall(c.account, c.amount)>>
          IN  IF c.payout = "fault"
              THEN Fault(st, ev, "payout_fault", calls)
              ELSE IF c.payout = "false"
              THEN Fault(st, ev, "assert_payout", calls)
              ELSE Outcome(st1, ev1, "void", "burned", calls)

\* burn(account, amount).  The exit "unpaid" marks the burn whose
\* NEO_TOKEN.transfer returned False; burn drops that result (line 194).
burn(st, ev, c) ==
  IF ~(Len(c.account) = 20)
  THEN Fault(st, ev, "assert_address", <<>>)
  ELSE IF ~(c.amount >= 0)
  THEN Fault(st, ev, "assert_amount", <<>>)
  ELSE IF ~c.check_witness
  THEN Outcome(st, ev, "void", "unwitnessed", <<>>)
  ELSE IF ~(c.amount # 0)
  THEN Outcome(st, ev, "void", "zero", <<>>)
  ELSE
    LET current_total_supply == total_supply(st)
        account_balance == balance_of(st, c.account)
    IN  IF ~(account_balance >= c.amount)
        THEN Fault(st, ev, "assert_balance", <<>>)
        ELSE
          LET st1 == BurnDebit(BurnSupply(st, current_total_supply, c.amount),
                               c.account, account_balance, c.amount)
              ev1 == Append(ev, on_transfer(c.account, None, c.amount))
              calls == post_transfer(c.account, None, c.amount, None, FALSE,
                                     FALSE)
                       \o <<PayoutCall(c.account, c.amount)>>
          IN  IF c.payout = "fault"
              THEN Fault(st, ev, "payout_fault", calls)
              ELSE Outcome(st1, ev1, "void",
                           IF c.payout = "true" THEN "burned" ELSE "unpaid",
                           calls)

----------------------------------------------------------------------------
(* The statements of transfer and burn in program order *)

\* One effect of a method on the platform: a storage write ("put" or
\* "delete" of a key), a notification ("notify") or a call into another
\* contract ("call").
Effect(kind, what) ==
  [kind |-> kind, what |-> what]

\* Mutation: the notification is sent before the balances are written.
transfer_effects_notifyFirst(st, c) ==
  IF ~(Len(c.from_address) = 20 /\ Len(c.to_address) = 20) \/ ~(c.amount >= 0)
  THEN <<>>
  ELSE
    LET from_balance == Get(st, c.from_address)
    IN  IF InsufficientFunds(from_balance, c.amount)
           \/ Unauthorized(c.from_address, c.calling_script_hash,
                           c.check_witness)
        THEN <<>>
        ELSE
          <<Effect("notify", on_transfer(c.from_address, c.to_address,
                                         c.amount))>>
          \o (IF c.from_address # c.to_address /\ c.amount # 0
              THEN <<IF from_balance = c.amount
                     THEN Effect("delete", <<c.from_address, 0>>)
                     ELSE Effect("put", <<c.from_address,
                                          from_balance - c.amount>>),
                     Effect("put",
                            <<c.to_address,
                              Get(DebitFrom(st, c.from_address, from_balance,
                                            c.amount), c.to_address)
                              + c.amount>>)>>
              ELSE <<>>)
          \o (IF c.destination # "account"
              THEN <<Effect("call", OnPaymentCall(c.from_address,
                                                  c.to_address, c.amount,
                                                  c.data))>>
              ELSE <<>>)

\* What transfer does to the platform, statement by statement: nothing up
\* to the checks (lines 82-91), then the two balance writes (lines 94-100),
\* the notification (line 102) and the call of the receiver (line 106).
transfer_effects(st, c) ==
  IF ~(Len(c.from_address) = 20 /\ Len(c.to_address) = 20) \/ ~(c.amount >= 0)
  THEN <<>>
  ELSE
    LET from_balance == Get(st, c.from_address)
    IN  IF InsufficientFunds(from_balance, c.amount)
           \/ Unauthorized(c.from_address, c.calling_script_hash,
                           c.check_witness)
        THEN <<>>
        ELSE
          (IF c.from_address # c.to_address /\ c.amount # 0
           THEN <<IF from_balance = c.amount
                  THEN Effect("delete", <<c.from_address, 0>>)
                  ELSE Effect("put", <<c.from_address,
                                       from_balance - c.amount>>),
                  Effect("put",
                         <<c.to_address,
                           Get(DebitFrom(st, c.from_address, from_balance,
                                         c.amount), c.to_address)
                           + c.amount>>)>>
           ELSE <<>>)
          \o <<Effect("notify", on_transfer(c.from_address, c.to_address,
                                            c.amount))>>
          \o (IF c.destination # "account"
              THEN <<Effect("call", OnPaymentCall(c.from_address,
                                                  c.to_address, c.amount,
                                                  c.data))>>
              ELSE <<>>)

\* What burn does to the platform, statement by statement: nothing up to
\* the asserts and the two guards (lines 175-182), then the supply write
\* (line 184), the balance write (lines 186-189), the notification (line
\* 191), the calls of post_transfer (line 192) and the payout (line 194).
burn_effects(st, c) ==
  IF ~(Len(c.account) = 20) \/ ~(c.amount >= 0)
     \/ ~c.check_witness \/ ~(c.amount # 0)
  THEN <<>>
  ELSE
    LET current_total_supply == total_supply(st)
        account_balance == balance_of(st, c.account)
        calls == post_transfer(c.account, None, c.amount, None, FALSE, FALSE)
    IN  IF ~(account_balance >= c.amount)
        THEN <<>>
        ELSE
          <<Effect("put", <<SUPPLY_KEY, current_total_supply - c.amount>>),
            IF account_balance = c.amount
            THEN Effect("delete", <<c.account, 0>>)
            ELSE Effect("put", <<c.account, account_balance - c.amount>>),
            Effect("notify", on_transfer(c.account, None, c.amount))>>
          \o [i \in 1..Len(calls) |-> Effect("call", calls[i])]
          \o <<Effect("call", PayoutCall(c.account, c.amount))>>

----------------------------------------------------------------------------
(* Calls back into the contract from a contract it calls *)

NestedAmounts ==
  {4 * (TOKEN_TOTAL_SUPPLY \div 10), TOKEN_TOTAL_SUPPLY}

\* What a called contract can invoke before it returns: a transfer between
\* accounts, a burn or a deployment.
NestedCalls ==
  [op : {"transfer"}, account : Accounts, to_address : Accounts,
   amount : NestedAmounts]
  \cup [op : {"burn"}, account : Accounts, to_address : {None},
        amount : NestedAmounts]
  \cup [op : {"deploy"}, account : {None}, to_address : {None},
        amount : {0}]

\* The nested invocation n, made by the contract `caller`, on the storage
\* and the log the outer invocation has produced so far.  The platform
\* witnesses the calling contract and no other account.
NestedCall(st, ev, caller, n) ==
  IF n.op = "transfer"
  THEN transfer(st, ev,
                [from_address |-> n.account, to_address |-> n.to_address,
                 amount |-> n.amount, data |-> CHOOSE d \in Data : TRUE,
                 calling_script_hash |-> caller,
                 check_witness |-> (n.account = caller),
                 destination |-> "account"])
  ELSE IF n.op = "burn"
  THEN burn(st, ev, [account |-> n.account, amount |-> n.amount,
                     check_witness |-> (n.account = caller),
                     payout |-> "true"])
  ELSE deploy(st, ev, [data |-> CHOOSE d \in Data : TRUE, update |-> FALSE])

\* Mutation: after the call returns, the method stores again the value it
\* had computed for `key` before the call.
ResumeAfterCall_staleWrite(st, key, value) ==
  Put(st, key, value)

\* The statements after the call of the other contract: transfer only
\* returns True (line 108) and burn ends with the call (line 194), so the
\* storage stays as the called contract left it.
ResumeAfterCall(st, key, value) ==
  st

\* transfer whose receiver, when it is called, makes the nested call n
\* before it returns.  A fault of the nested call ends the whole invocation.
transfer_reentered(st, ev, c, n) ==
  IF ~(Len(c.from_address) = 20 /\ Len(c.to_address) = 20)
  THEN Fault(st, ev, "assert_address", <<>>)
  ELSE IF ~(c.amount >= 0)
  THEN Fault(st, ev, "assert_amount", <<>>)
  ELSE
    LET from_balance == Get(st, c.from_address)
    IN  IF InsufficientFunds(from_balance, c.amount)
        THEN Outcome(st, ev, "false", "insufficient", <<>>)
        ELSE IF Unauthorized(c.from_address, c.calling_script_hash,
                             c.check_witness)
        THEN Outcome(st, ev, "false", "unauthorized", <<>>)
        ELSE
          LET st1 == MoveTokens(st, c.from_address, c.to_address,
                                from_balance, c.amount)
              ev1 == Append(ev, on_transfer(c.from_address, c.to_address,
                                            c.amount))
              hook == OnPaymentCall(c.from_address, c.to_address, c.amount,
                                    c.data)
              inner == NestedCall(st1, ev1, c.to_address, n)
          IN  IF c.destination # "account"
              THEN IF c.destination = "faulting_contract"
                   THEN Fault(st, ev, "hook_fault", <<hook>>)
                   ELSE IF inner.ret = "abort"
                   THEN Fault(st, ev, "nested_fault", <<hook>>)
                   ELSE Outcome(ResumeAfterCall(inner.store, c.to_address,
                                                Get(st1, c.to_address)),
                                inner.events, "true", "reentered",
                                <<hook>> \o inner.calls)
              ELSE Outcome(st1, ev1, "true", "done", <<>>)

\* burn whose payout reaches a contract at `account` that makes the nested
\* call n before NEO_TOKEN.transfer returns.
burn_reentered(st, ev, c, n) ==
  IF ~(Len(c.account) = 20)
  THEN Fault(st, ev, "assert_address", <<>>)
  ELSE IF ~(c.amount >= 0)
  THEN Fault(st, ev, "assert_amount", <<>>)
  ELSE IF ~c.check_witness
  THEN Outcome(st, ev, "void", "unwitnessed", <<>>)
  ELSE IF ~(c.amount # 0)
  THEN Outcome(st, ev, "void", "zero", <<>>)
  ELSE
    LET current_total_supply == total_supply(st)
        account_balance == balance_of(st, c.account)
    IN  IF ~(account_balance >= c.amount)
        THEN Fault(st, ev, "assert_balance", <<>>)
        ELSE
          LET st1 == BurnDebit(BurnSupply(st, current_total_supply, c.amount),
                               c.account, account_balance, c.amount)
              ev1 == Append(ev, on_transfer(c.account, None, c.amount))
              calls == post_transfer(c.account, None, c.amount, None, FALSE,
                                     FALSE)
                       \o <<PayoutCall(c.account, c.amount)>>
              inner == NestedCall(st1, ev1, c.account, n)
          IN  IF c.payout = "fault"
              THEN Fault(st, ev, "payout_fault", calls)
              ELSE IF c.payout = "false"
              THEN Outcome(st1, ev1, "void", "unpaid", calls)
              ELSE IF inner.ret = "abort"
              THEN Fault(st, ev, "nested_fault", calls)
              ELSE Outcome(ResumeAfterCall(inner.store, SUPPLY_KEY,
                                           total_supply(st1)),
                           inner.events, "void", "reentered",
                           calls \o inner.calls)

----------------------------------------------------------------------------
(* The contract as a state machine *)

\* What the last invocation was and how it ended.
Called(op, r) ==
  [op |-> op, ret |-> r.ret, exit |-> r.exit]

\* A freshly deployed contract: empty storage, nothing notified, nothing
\* invoked and nothing minted yet.
Init ==
  /\ store = [k \in {} |-> 0]
  /\ events = <<>>
  /\ last = [op |-> "none", ret |-> "void", exit |-> "none"]
  /\ minted = 0

\* The invocation ends with the result r: its storage, its notifications,
\* and one more mint when it was an activation that minted.
Commit(op, r) ==
  /\ store' = r.store
  /\ events' = r.events
  /\ last' = Called(op, r)
  /\ minted' = IF r.exit = "minted" THEN minted + 1 ELSE minted

Transfer ==
  /\ minted < MaxMints
  /\ \E c \in TransferCalls : Commit("transfer", transfer(store, <<>>, c))

Burn ==
  /\ minted < MaxMints
  /\ \E c \in BurnCalls : Commit("burn", burn(store, <<>>, c))

Deploy ==
  /\ minted < MaxMints
  /\ \E c \in DeployCalls : Commit("deploy", deploy(store, <<>>, c))

OnNEP17Payment ==
  /\ minted < MaxMints
  /\ \E c \in PaymentCalls :
        Commit("onNEP17Payment", onNEP17Payment(store, <<>>, c))

Next ==
  \/ Transfer
  \/ Burn
  \/ Deploy
  \/ OnNEP17Payment

Spec ==
  Init /\ [][Next]_vars

TypeOK ==
  /\ DOMAIN store \subseteq Accounts \cup {SUPPLY_KEY}
  /\ Len(events) <= 1
  /\ minted \in 0..MaxMints

----------------------------------------------------------------------------
(* The contract with contracts that call back *)

\* The mints among the notifications of an invocation.
Mints(ev) ==
  Cardinality({i \in 1..Len(ev) : ev[i].from_address = None})

CommitReentered(op, r) ==
  /\ store' = r.store
  /\ events' = r.events
  /\ last' = Called(op, r)
  /\ minted' = minted + Mints(r.events)

\* A transfer, signed by its sender and sent from the entry script, to a
\* contract that calls back before it returns.
TransferReentered ==
  /\ minted < MaxMints
  /\ \E c \in TransferCalls :
       /\ c.destination = "contract"
       /\ c.check_witness /\ c.calling_script_hash = ENTRY
       /\ Len(c.from_address) = 20 /\ Len(c.to_address) = 20
       /\ c.amount >= 0 /\ Get(store, c.from_address) >= c.amount
       /\ \E n \in NestedCalls :
            CommitReentered("transfer", transfer_reentered(store, <<>>, c, n))

\* A burn whose payout reaches a contract that calls back before it returns.
BurnReentered ==
  /\ minted < MaxMints
  /\ \E c \in BurnCalls :
       /\ c.payout = "true" /\ c.check_witness
       /\ Len(c.account) = 20
       /\ c.amount > 0 /\ Get(store, c.account) >= c.amount
       /\ \E n \in NestedCalls :
            CommitReentered("burn", burn_reentered(store, <<>>, c, n))

NextReentrant ==
  \/ Transfer
  \/ Burn
  \/ Deploy
  \/ OnNEP17Payment
  \/ TransferReentered
  \/ BurnReentered

SpecReentrant ==
  Init /\ [][NextReentrant]_vars

----------------------------------------------------------------------------
(* Vocabulary of the properties *)

\* The properties below run a method in the current state with the current
\* log as the log so far, transfer(store, events, c): what the method
\* notifies is what it appends to that log.

\* The notification of the last invocation, when it notified.
LastEvent ==
  events[1]

\* Every balance entry and the total supply are the same in both storages.
SameLedger(st1, st2) ==
  /\ \A a \in Accounts : Get(st1, a) = Get(st2, a)
  /\ BalanceKeys(st1) = BalanceKeys(st2)
  /\ total_supply(st1) = total_supply(st2)

ValidTransferInput(c) ==
  Len(c.from_address) = 20 /\ Len(c.to_address) = 20 /\ c.amount >= 0

\* The caller is from_address or the oracle affirms from_address.
TransferAuthorized(c) ==
  c.calling_script_hash = c.from_address \/ c.check_witness

\* The first activation has happened.
Activated ==
  minted > 0

\* 10_000_000_000 base units (10 * 1_000_000_000), counted in units of Unit.
ScenarioTotal ==
  10 * (1000000000 \div Unit)

----------------------------------------------------------------------------
(* C1 *)

\* C1: conservation.  After every completed invocation (also one that
\* returned false or faulted) the sum of the stored balances equals the
\* stored total supply.
C1_Conservation ==
  SumBalances(store) = total_supply(store)

\* A burn has taken tokens out of a ledger on which two accounts still hold
\* tokens.
C1_Witness ==
  /\ last.op = "burn" /\ last.exit = "burned"
  /\ total_supply(store) > 0
  /\ Cardinality(BalanceKeys(store)) >= 2

----------------------------------------------------------------------------
(* C2 *)

\* C2 as stated: every transfer whose caller is not from_address and whose
\* from_address the oracle does not affirm returns false, changes no balance
\* and no total supply, notifies nothing and invokes no receive hook.
C2_UnauthorizedReturnsFalse ==
  \A c \in TransferCalls :
    ~TransferAuthorized(c) =>
      LET r == transfer(store, events, c)
      IN  /\ r.ret = "false"
          /\ r.store = store
          /\ r.events = events
          /\ r.calls = <<>>

\* C2, amended: such a transfer returns false when its addresses have 20
\* bytes and its amount is not negative, and faults otherwise; in both cases
\* the storage and the log stay as they were and no receive hook is invoked.
\* So a transfer lowers the balance of no account other than from_address,
\* and of from_address only when it is the caller or witnessed.
C2_AuthorizationGating ==
  \A c \in TransferCalls :
    LET r == transfer(store, events, c)
    IN  /\ ~TransferAuthorized(c) =>
             /\ r.ret = (IF ValidTransferInput(c) THEN "false" ELSE "abort")
             /\ r.store = store
             /\ r.events = events
             /\ r.calls = <<>>
        /\ \A a \in Accounts :
             Get(r.store, a) < Get(store, a) =>
               a = c.from_address /\ TransferAuthorized(c)

\* A transfer has just been rejected for want of authorization, on a ledger
\* where an unauthorized call names a sender that holds the amount.
C2_Witness ==
  /\ last.op = "transfer" /\ last.exit = "unauthorized"
  /\ \E c \in TransferCalls :
       /\ ~TransferAuthorized(c) /\ ValidTransferInput(c)
       /\ c.amount > 0 /\ Get(store, c.from_address) >= c.amount
       /\ transfer(store, events, c).exit = "unauthorized"

----------------------------------------------------------------------------
(* C3 *)

----------------------------------------------------------------------------
(* C4 *)

\* The case of C4: 20-byte from_address # to_address, 0 < amount <=
\* balance(from_address), and the caller is from_address or the oracle
\* affirms from_address.
MovingTransfer(st, c) ==
  /\ Len(c.from_address) = 20 /\ Len(c.to_address) = 20
  /\ c.from_address # c.to_address
  /\ 0 < c.amount /\ c.amount <= Get(st, c.from_address)
  /\ TransferAuthorized(c)

\* transfer returned true and moved exactly the amount from from_address to
\* to_address, leaving every other balance and the total supply alone.
MovedExactly(st, c, r) ==
  /\ r.ret = "true"
  /\ Get(r.store, c.from_address) = Get(st, c.from_address) - c.amount
  /\ Get(r.store, c.to_address) = Get(st, c.to_address) + c.amount
  /\ \A a \in Accounts \ {c.from_address, c.to_address} :
       Get(r.store, a) = Get(st, a)
  /\ total_supply(r.store) = total_supply(st)

----------------------------------------------------------------------------
(* C5 *)

\* C5: no mint after activation.  Once the first activation has happened,
\* no invocation raises the total supply, and no deploy changes the total
\* supply or the owner's balance.
C5_NoMintAfterActivation ==
  [][Activated =>
       /\ total_supply(store') <= total_supply(store)
       /\ last'.op = "deploy" =>
            /\ total_supply(store') = total_supply(store)
            /\ Get(store', OWNER) = Get(store, OWNER)]_vars

----------------------------------------------------------------------------
(* C6 *)

\* C6: non-negativity and bound.  Every stored balance and the total supply
\* are >= 0, and every balance is <= the total supply.
C6_NonNegativeAndBounded ==
  /\ total_supply(store) >= 0
  /\ \A k \in DOMAIN store : store[k] >= 0
  /\ \A a \in Accounts : 0 <= Get(store, a) /\ Get(store, a) <= total_supply(store)

\* A burn has just taken the whole supply: the total supply is stored as 0.
C6_Witness ==
  /\ last.op = "burn" /\ last.exit = "burned"
  /\ SUPPLY_KEY \in DOMAIN store
  /\ total_supply(store) = 0

----------------------------------------------------------------------------
(* C7 *)

\* C7: sparse zero.  The storage holds no balance entry of value 0: every
\* balance entry it holds is strictly positive.
C7_SparseZero ==
  \A k \in BalanceKeys(store) : store[k] # 0 /\ store[k] > 0

\* A transfer has just moved the sender's whole balance: the sender has no
\* entry any more and the receiver has one.
C7_Witness ==
  /\ last.op = "transfer" /\ last.ret = "true"
  /\ LastEvent.from_address # LastEvent.to_address
  /\ LastEvent.amount > 0
  /\ LastEvent.from_address \notin DOMAIN store
  /\ LastEvent.to_address \in DOMAIN store

----------------------------------------------------------------------------
(* C8 *)

\* C8: idempotent activation.  In every state, a second deploy with update
\* false right after a first one changes neither the storage nor the log
\* that the first one left; and a deploy with update true changes neither.
C8_IdempotentActivation ==
  /\ \A c1, c2 \in DeployCalls :
       ~c1.update /\ ~c2.update =>
         LET r1 == deploy(store, events, c1)
             r2 == deploy(r1.store, r1.events, c2)
         IN  r2.store = r1.store /\ r2.events = r1.events
  /\ \A c \in DeployCalls :
       c.update =>
         LET r == deploy(store, events, c)
         IN  r.store = store /\ r.events = events

\* A deploy with update false has just found the ledger activated and left
\* it alone, notifying nothing.
C8_Witness ==
  /\ last.op = "deploy" /\ last.exit = "deployed"
  /\ events = <<>>
  /\ store = MintToOwner(<<>>)

----------------------------------------------------------------------------
(* C9 *)

\* C9: effect of the first activation.  deploy with update false on a
\* ledger whose total supply is 0 sets the total supply and the owner's
\* balance to 10_000_000_000 base units, leaves every other account at 0,
\* and notifies exactly (None, OWNER, 10_000_000_000).
C9_FirstActivation ==
  \A c \in DeployCalls :
    ~c.update /\ total_supply(store) = 0 =>
      LET r == deploy(store, events, c)
      IN  /\ TOKEN_TOTAL_SUPPLY = ScenarioTotal
          /\ total_supply(r.store) = ScenarioTotal
          /\ Get(r.store, OWNER) = ScenarioTotal
          /\ \A a \in Accounts \ {OWNER} : Get(r.store, a) = 0
          /\ BalanceKeys(r.store) = {OWNER}
          /\ r.events = Append(events, on_transfer(None, OWNER, ScenarioTotal))

\* The first activation has just happened.
C9_Witness ==
  /\ last.op = "deploy" /\ last.exit = "minted"
  /\ minted = 1
  /\ events = <<on_transfer(None, OWNER, TOKEN_TOTAL_SUPPLY)>>
  /\ total_supply(store) = TOKEN_TOTAL_SUPPLY

----------------------------------------------------------------------------
(* C10 *)

\* The case of C10: a 20-byte account, amount > 0, the oracle affirming the
\* account, and the account holding the amount.
EffectiveBurn(st, c) ==
  /\ Len(c.account) = 20
  /\ c.amount > 0
  /\ c.check_witness
  /\ Get(st, c.account) >= c.amount

\* burn took exactly the amount from the account and from the total supply,
\* deleted the entry that reached 0, left every other balance alone and
\* notified exactly (account, None, amount).
BurnedExactly(st, ev, c, r) ==
  /\ total_supply(r.store) = total_supply(st) - c.amount
  /\ Get(r.store, c.account) = Get(st, c.account) - c.amount
  /\ Get(st, c.account) = c.amount => c.account \notin DOMAIN r.store
  /\ \A a \in Accounts \ {c.account} :
       Get(r.store, a) = Get(st, a) /\ (a \in DOMAIN r.store <=> a \in DOMAIN st)
  /\ r.events = Append(ev, on_transfer(c.account, None, c.amount))

\* C10 as stated: every witnessed burn of a positive amount that the
\* account holds takes exactly the amount and notifies once.
C10_SuccessfulBurnAsStated ==
  \A c \in BurnCalls :
    EffectiveBurn(store, c) =>
      BurnedExactly(store, events, c, burn(store, events, c))

\* C10, amended: such a burn takes exactly the amount and notifies once
\* unless the payout NEO_TOKEN.transfer faults; then the fault ends the
\* burn, and the ledger and the log stay as they were.
C10_SuccessfulBurn ==
  \A c \in BurnCalls :
    EffectiveBurn(store, c) =>
      LET r == burn(store, events, c)
      IN  IF c.payout = "fault"
          THEN r.ret = "abort" /\ r.store = store /\ r.events = events
          ELSE BurnedExactly(store, events, c, r)

\* BOB has just burned the whole balance received from the owner: BOB's
\* entry is gone and the owner's rest is the total supply.
C10_Witness ==
  /\ last.op = "burn" /\ last.exit = "burned"
  /\ LastEvent = on_transfer(BOB, None, 4 * (TOKEN_TOTAL_SUPPLY \div 10))
  /\ BOB \notin DOMAIN store
  /\ Get(store, OWNER) = 6 * (TOKEN_TOTAL_SUPPLY \div 10)
  /\ total_supply(store) = 6 * (TOKEN_TOTAL_SUPPLY \div 10)

----------------------------------------------------------------------------
(* C11 *)

\* The case of C11: a 20-byte account and amount >= 0, and the oracle does
\* not affirm the account or the amount is 0.
SkippedBurn(c) ==
  /\ Len(c.account) = 20
  /\ c.amount >= 0
  /\ (~c.check_witness \/ c.amount = 0)

\* C11: silent no-op burn.  A burn with a 20-byte account and amount >= 0
\* that the oracle does not affirm, or whose amount is 0, does not fault,
\* changes neither the storage nor the log and makes no call out (no
\* compensating transfer), also when the amount exceeds the balance.
C11_SilentNoOpBurn ==
  \A c \in BurnCalls :
    SkippedBurn(c) =>
      LET r == burn(store, events, c)
      IN  /\ r.ret = "void"
          /\ r.store = store
          /\ r.events = events
          /\ r.calls = <<>>

\* An unwitnessed burn has just been skipped on a ledger where an
\* unwitnessed burn asks for more than its account holds.
C11_Witness ==
  /\ last.op = "burn" /\ last.ret = "void" /\ last.exit = "unwitnessed"
  /\ total_supply(store) > 0
  /\ \E c \in BurnCalls :
       SkippedBurn(c) /\ ~c.check_witness /\ c.amount > Get(store, c.account)

----------------------------------------------------------------------------
(* C12 *)

\* The case of C12: a witnessed burn of more than the account holds, or a
\* burn with an account that has not 20 bytes or with a negative amount.
FatalBurn(st, c) ==
  \/ Len(c.account) # 20
  \/ c.amount < 0
  \/ (c.check_witness /\ c.amount > Get(st, c.account))

\* C12: fatal burn failures leave no partial effects.  Such a burn faults,
\* and the storage and the log are as before it; and no burn lowers the
\* total supply by another amount than it lowers the balance of its account.
C12_FatalBurn ==
  \A c \in BurnCalls :
    LET r == burn(store, events, c)
    IN  /\ FatalBurn(store, c) =>
             /\ r.ret = "abort"
             /\ r.store = store /\ SameLedger(r.store, store)
             /\ r.events = events
        /\ Len(c.account) = 20 =>
             total_supply(store) - total_supply(r.store)
               = Get(store, c.account) - Get(r.store, c.account)

\* A burn has just faulted on its balance assert, on a ledger where the
\* account of a witnessed burn holds tokens, but fewer than the amount.
C12_Witness ==
  /\ last.op = "burn" /\ last.ret = "abort" /\ last.exit = "assert_balance"
  /\ \E c \in BurnCalls :
       /\ Len(c.account) = 20 /\ c.check_witness
       /\ Get(store, c.account) > 0
       /\ c.amount > Get(store, c.account)

----------------------------------------------------------------------------
(* C13 *)

\* C13 as stated: a transfer with an address that has not 20 bytes or with
\* a negative amount returns false and changes nothing in the storage.
C13_InvalidInputReturnsFalse ==
  \A c \in TransferCalls :
    ~ValidTransferInput(c) =>
      LET r == transfer(store, events, c)
      IN  r.ret = "false" /\ SameLedger(r.store, store)

\* C13, amended: such a transfer faults on its asserts; it returns nothing,
\* and the storage and the log are as before it.
C13_InvalidInputFaults ==
  \A c \in TransferCalls :
    ~ValidTransferInput(c) =>
      LET r == transfer(store, events, c)
      IN  /\ r.ret = "abort"
          /\ r.store = store /\ SameLedger(r.store, store)
          /\ r.events = events
          /\ r.calls = <<>>

\* A transfer has just faulted on `assert amount >= 0`, on a ledger where
\* an authorized call with a negative amount names a sender with tokens.
C13_Witness ==
  /\ last.op = "transfer" /\ last.ret = "abort" /\ last.exit = "assert_amount"
  /\ \E c \in TransferCalls :
       /\ c.amount < 0 /\ TransferAuthorized(c)
       /\ Len(c.from_address) = 20 /\ Len(c.to_address) = 20
       /\ Get(store, c.from_address) > 0

----------------------------------------------------------------------------
(* C14 *)

\* The notification (from, to, amount), written out.
Notification(from_address, to_address, amount) ==
  [from_address |-> from_address, to_address |-> to_address, amount |-> amount]

\* transfer gets past its asserts, its balance check and its authorization.
PassesChecks(st, c) ==
  /\ ValidTransferInput(c)
  /\ Get(st, c.from_address) >= c.amount
  /\ TransferAuthorized(c)

\* The case of C14: a transfer that gets past the checks with from = to or
\* amount = 0.
NoOpTransfer(st, c) ==
  /\ PassesChecks(st, c)
  /\ (c.from_address = c.to_address \/ c.amount = 0)

----------------------------------------------------------------------------
(* C15 *)

\* C15: event emission matches the result.  A transfer appends exactly
\* (from, to, amount) to the log when it returns true and nothing when it
\* returns false or faults; a burn appends exactly (account, None, amount)
\* when it changes the storage and nothing otherwise; a deploy appends
\* exactly (None, OWNER, total) when it mints and nothing otherwise;
\* onNEP17Payment appends nothing.  Each appends at the end of the log so
\* far, so the log is in call order; and the log of the last invocation
\* holds one notification exactly when that invocation was a transfer that
\* returned true, a burn that burned or a deploy that minted.
C15_EventsMatchResult ==
  /\ \A c \in TransferCalls :
       LET r == transfer(store, events, c)
       IN  r.events = IF r.ret = "true"
                      THEN Append(events, Notification(c.from_address,
                                                       c.to_address, c.amount))
                      ELSE events
  /\ \A c \in BurnCalls :
       LET r == burn(store, events, c)
       IN  r.events = IF r.store # store
                      THEN Append(events, Notification(c.account, None,
                                                       c.amount))
                      ELSE events
  /\ \A c \in DeployCalls :
       LET r == deploy(store, events, c)
       IN  r.events = IF r.store # store
                      THEN Append(events, Notification(None, OWNER,
                                                       TOKEN_TOTAL_SUPPLY))
                      ELSE events
  /\ \A c \in PaymentCalls :
       onNEP17Payment(store, events, c).events = events
  /\ Len(events) = (IF \/ (last.op = "transfer" /\ last.ret = "true")
                       \/ (last.op = "burn"
                           /\ last.exit \in {"burned", "unpaid"})
                       \/ (last.op = "deploy" /\ last.exit = "minted")
                    THEN 1 ELSE 0)

\* A transfer has just returned false after an activation, and its log is
\* empty, on a ledger where another transfer would return true.
C15_Witness ==
  /\ last.op = "transfer" /\ last.ret = "false"
  /\ events = <<>>
  /\ minted > 0
  /\ \E c \in TransferCalls :
       c.amount > 0 /\ transfer(store, events, c).ret = "true"

----------------------------------------------------------------------------
(* C16 *)

\* The case of C16: a transfer that gets past the checks and whose
\* to_address is a contract whose onNEP17Payment fails by faulting.
HookFails(st, c) ==
  /\ PassesChecks(st, c)
  /\ c.destination = "faulting_contract"

----------------------------------------------------------------------------
(* C17 *)

\* C17: the ledger refuses inbound tokens.  onNEP17Payment faults for every
\* (from, amount, data) in every state and leaves every balance and the
\* total supply as they were.
C17_RefusesPayments ==
  /\ \A c \in PaymentCalls :
       LET r == onNEP17Payment(store, events, c)
       IN  /\ r.ret = "abort"
           /\ r.store = store /\ SameLedger(r.store, store)
           /\ r.events = events
  /\ last.op = "onNEP17Payment" => last.ret = "abort" /\ events = <<>>

\* onNEP17Payment has just faulted on a ledger on which two accounts hold
\* tokens.
C17_Witness ==
  /\ last.op = "onNEP17Payment" /\ last.ret = "abort"
  /\ Cardinality(BalanceKeys(store)) >= 2
  /\ total_supply(store) > 0

----------------------------------------------------------------------------
(* C18 *)

\* The positions of the effects of one kind in a sequence of effects.
Positions(t, kinds) ==
  {i \in 1..Len(t) : t[i].kind \in kinds}

\* The storage after the writes of a sequence of effects.
RECURSIVE Replay(_, _)
Replay(st, t) ==
  IF t = <<>> THEN st
  ELSE LET e == Head(t)
           st1 == IF e.kind = "put" THEN Put(st, e.what[1], e.what[2])
                  ELSE IF e.kind = "delete" THEN Delete(st, e.what[1])
                  ELSE st
       IN  Replay(st1, Tail(t))

\* The calls of onNEP17Payment among the calls of an invocation.
ReceiveHooks(calls) ==
  {i \in 1..Len(calls) : calls[i].method = "onNEP17Payment"}

\* C18: pipeline order and hook condition.  A transfer that does not get
\* past its checks has no effect at all, so nothing is written before the
\* checks have passed.  A transfer that gets past them notifies once, after
\* its storage writes; it calls onNEP17Payment of to_address once, after the
\* notification and with (from, amount, data), when to_address is a
\* contract (also when from = to or amount = 0), and not at all otherwise.
\* A transfer that returns false has called no hook, and no burn calls one.
\* The effects are those of the invocation: its calls are the calls of the
\* list, and its writes give the storage it leaves when it does not fault.
C18_PipelineOrder ==
  /\ \A c \in TransferCalls :
       LET t == transfer_effects(store, c)
           r == transfer(store, events, c)
           writes == Positions(t, {"put", "delete"})
           notes == Positions(t, {"notify"})
           hooks == Positions(t, {"call"})
       IN  /\ ~PassesChecks(store, c) => t = <<>>
           /\ PassesChecks(store, c) =>
                /\ Cardinality(notes) = 1
                /\ \A w \in writes : \A n \in notes : w < n
                /\ \A n \in notes :
                     t[n].what = Notification(c.from_address, c.to_address,
                                              c.amount)
                /\ Cardinality(hooks) = (IF c.destination # "account"
                                         THEN 1 ELSE 0)
                /\ \A h \in hooks :
                     /\ \A n \in notes : n < h
                     /\ t[h].what.contract = c.to_address
                     /\ t[h].what.method = "onNEP17Payment"
                     /\ t[h].what.args = <<c.from_address, c.amount, c.data>>
           /\ r.ret = "false" => hooks = {} /\ r.calls = <<>>
           /\ r.calls = [i \in 1..Cardinality(hooks) |->
                           t[CHOOSE h \in hooks : TRUE].what]
           /\ r.ret # "abort" => r.store = Replay(store, t)
  /\ \A c \in BurnCalls :
       LET t == burn_effects(store, c)
           r == burn(store, events, c)
       IN  /\ ReceiveHooks(r.calls) = {}
           /\ \A i \in Positions(t, {"call"}) :
                t[i].what.method # "onNEP17Payment"
           /\ r.ret # "abort" => r.store = Replay(store, t)

\* A transfer of tokens to a contract has just returned true: the sender's
\* entry and the receiver's entry were written, then the notification was
\* sent, then the receiver was called.
C18_Witness ==
  /\ last.op = "transfer" /\ last.ret = "true"
  /\ LastEvent.amount > 0
  /\ LastEvent.from_address # LastEvent.to_address
  /\ Get(store, LastEvent.from_address) > 0
  /\ \E c \in TransferCalls :
       /\ c.destination = "contract"
       /\ c.amount > 0 /\ c.from_address # c.to_address
       /\ Len(transfer_effects(store, c)) = 4

----------------------------------------------------------------------------
(* C19 *)

\* A ledger on which the balances sum to the total supply and no stored
\* value is negative.
Consistent(st) ==
  /\ SumBalances(st) = total_supply(st)
  /\ \A k \in DOMAIN st : st[k] >= 0

\* The storage a method has written when it reaches effect h of its list.
StorageAt(st, t, h) ==
  Replay(st, SubSeq(t, 1, h - 1))

\* C19: re-entrancy consistency.  When transfer calls the receiver, and when
\* burn calls NEO_TOKEN.transfer, every storage write of the operation is
\* done and the ledger at that moment is consistent; a transfer, burn or
\* deployment nested into the call starts from that ledger and leaves a
\* consistent one, the outer call writes nothing after it, and the ledger is
\* consistent when both have completed (the first conjunct, over the
\* behaviours in which called contracts call back).
C19_ReentrancyConsistency ==
  /\ Consistent(store)
  /\ \A c \in TransferCalls :
       LET t == transfer_effects(store, c)
       IN  \A h \in Positions(t, {"call"}) :
             LET at == StorageAt(store, t, h)
             IN  /\ \A w \in Positions(t, {"put", "delete"}) : w < h
                 /\ Consistent(at)
                 /\ (c.destination = "contract" /\ c.check_witness
                     /\ c.calling_script_hash = ENTRY) =>
                      \A n \in NestedCalls :
                        LET inner == NestedCall(at, <<>>, c.to_address, n)
                            r == transfer_reentered(store, events, c, n)
                        IN  /\ Consistent(inner.store)
                            /\ Consistent(r.store)
                            /\ inner.ret # "abort" => r.store = inner.store
  /\ \A c \in BurnCalls :
       LET t == burn_effects(store, c)
       IN  \A h \in Positions(t, {"call"}) :
             LET at == StorageAt(store, t, h)
             IN  /\ \A w \in Positions(t, {"put", "delete"}) : w < h
                 /\ Consistent(at)
                 /\ c.payout = "true" =>
                      \A n \in NestedCalls :
                        LET inner == NestedCall(at, <<>>, c.account, n)
                            r == burn_reentered(store, events, c, n)
                        IN  /\ Consistent(inner.store)
                            /\ Consistent(r.store)
                            /\ inner.ret # "abort" => r.store = inner.store

\* A transfer of tokens has completed whose receiver, before it returned,
\* passed tokens on with a nested transfer: both notifications are in the
\* log of the invocation.
C19_Witness ==
  /\ last.op = "transfer" /\ last.exit = "reentered"
  /\ Len(events) = 2
  /\ events[1].amount > 0 /\ events[2].amount > 0
  /\ events[2].from_address = events[1].to_address
  /\ events[2].to_address # events[1].to_address
  /\ total_supply(store) > 0

----------------------------------------------------------------------------
(* C20 *)

\* C20: burn is independent of the payout result.  A burn leaves the same
\* storage and the same log, and makes the same calls, whether
\* NEO_TOKEN.transfer returns True or False; a witnessed burn of a positive
\* amount the account holds takes the amount from the balance and from the
\* total supply and notifies (account, None, amount) without faulting also
\* when the payout returns False.
C20_BurnIgnoresPayoutResult ==
  \A c \in BurnCalls :
    LET paid == burn(store, events, [c EXCEPT !.payout = "true"])
        unpaid == burn(store, events, [c EXCEPT !.payout = "false"])
    IN  /\ unpaid.store = paid.store
        /\ unpaid.events = paid.events
        /\ unpaid.ret = paid.ret
        /\ unpaid.calls = paid.calls
        /\ EffectiveBurn(store, c) =>
             /\ unpaid.ret = "void"
             /\ total_supply(unpaid.store) = total_supply(store) - c.amount
             /\ Get(unpaid.store, c.account)
                  = Get(store, c.account) - c.amount
             /\ unpaid.events = Append(events, Notification(c.account, None,
                                                            c.amount))
             /\ Len(unpaid.calls) = 1
             /\ unpaid.calls[1].contract = "NEO"

\* A burn has completed whose payout returned False: the tokens are gone
\* from the ledger, the burn is in the log, and the invocation did not fault.
C20_Witness ==
  /\ last.op = "burn" /\ last.exit = "unpaid" /\ last.ret = "void"
  /\ Len(events) = 1
  /\ LastEvent.to_address = None /\ LastEvent.amount > 0
  /\ SUPPLY_KEY \in DOMAIN store
  /\ total_supply(store) < TOKEN_TOTAL_SUPPLY

====
